---- MODULE Spec2Model ----
(***************************************************************************)
(* Colour tracking core of MobileDev-Exam2: the shared tracking store      *)
(* (modules/tracking.global.js), the colour space table                    *)
(* (modules/ColorSpace.js) and the tracking screen with its poller and     *)
(* frame processor (the VisionCameraExample component that imports         *)
(* resetToDefaults / setSelectedColor from tracking.global).               *)
(*                                                                         *)
(* JavaScript values are represented as follows.                           *)
(*   - a string is a TLA+ string; the value null of a string-typed cell is *)
(*     the string "null" (Null);                                           *)
(*   - a nullable object is a sequence of length 0 (null, None) or 1       *)
(*     (Some(v));                                                          *)
(*   - an RGB sample or a bound is a triple <<a, b, c>>;                   *)
(*   - a tap is a record [x, y]; a range is a record [lower, upper].       *)
(***************************************************************************)
EXTENDS Integers, Sequences, FiniteSets, TLC

VARIABLES
    \* ---- modules/tracking.global.js (worklet context "TrackingStore")
    tapPosition,      \* shared value: None or Some([x, y])
    colorFormat,      \* shared value: Null or a string
    selectedColor,    \* shared value: None or Some(<<r, g, b>>)
    colorFilter,      \* shared value: None or Some(sequence of ranges)
    timeLastSent,     \* property name -> time of the last non-throttled call (0: absent)
    now,              \* Date.now(), in milliseconds
    \* ---- tracking screen component
    isFocused,        \* useIsFocused()
    intervalId,       \* intervalId.current: None or Some(id) of the scheduled poller
    scheduled,        \* ids of the intervals the timer table holds
    selectedColor_JS, \* useSharedValue(null): the JS-thread copy of the colour
    pollPc,           \* position of the running poller callback
    pollSnap,         \* what the running poller callback has read so far
    fpPc,             \* position of the running frame processor callback
    fpSpace,          \* colour space the running frame was converted with
    frameLog,         \* what the last frame processor run did
    \* ---- observation of the setter calls (history, not program state)
    log,              \* the setter calls issued so far, oldest first
    \* ---- tap block / sample extractor exercised on its own
    sTap, sRadius, sInside, sOutside, sOut,
    \* ---- pure functions exercised on their own
    fnCall,           \* the call: function name and arguments
    fnOut             \* None, or Some(result) once the function was applied

storeVars  == <<tapPosition, colorFormat, selectedColor, colorFilter, timeLastSent, now>>
screenVars == <<isFocused, intervalId, scheduled, selectedColor_JS, pollPc, pollSnap>>
frameVars  == <<fpPc, fpSpace, frameLog>>
sampleVars == <<sTap, sRadius, sInside, sOutside, sOut>>
fnVars     == <<fnCall, fnOut>>
vars == <<storeVars, screenVars, frameVars, log, sampleVars, fnVars>>

----------------------------------------------------------------------------
\* Bounds of the model

\* Date.now() when the module is loaded (any positive time).
StartTime == 100
\* Milliseconds by which one clock step advances Date.now().
TickStep == 25
\* Number of clock steps explored.
MaxTicks == 2
\* Number of setter calls recorded in the log of the store specification.
MaxCalls == 3
\* Frame size in pixels and largest sampling radius explored.
FrameWidth == 4
FrameHeight == 3
MaxRadius == 2
\* Largest contour area and size limit given to the area filter on its own.
MaxArea == 8

MaxTime == StartTime + MaxTicks * TickStep

----------------------------------------------------------------------------
\* JavaScript values

Null == "null"
None == <<>>
Some(v) == <<v>>
IsNone(o) == Len(o) = 0
The(o) == o[1]

\* typeof v == 'object' for a string-typed cell: only null is an object.
TypeofStringCellIsObject(s) == s = Null
\* !v for a string-typed cell: null and the empty string are falsy.
FalsyString(s) == s = Null \/ s = ""

\* a == b between the argument of a setter, which crossed into the worklet
\* context as a fresh copy, and the stored value: two objects are equal only
\* when they are the same reference, which a fresh copy never is; null == null.
LooseEqFresh(arg, stored) == IsNone(arg) /\ IsNone(stored)

----------------------------------------------------------------------------
\* modules/ColorSpace.js

\* ColorSpace.FORMAT: the six own string members.
FORMAT == {"BGR", "GRAY", "HLS", "HSV", "Lab", "XYZ"}

\* Other property names that resolve on the frozen FORMAT object: its own
\* method and what it inherits from Object.prototype.
FORMAT_OtherMembers == {"from", "toString", "valueOf", "constructor", "hasOwnProperty"}

\* A mutant of FORMAT_from: only own string members are formats.
FORMAT_from_Strict(value) == value \in FORMAT

\* FORMAT.from(value): this[value] || null, as a truth value.
FORMAT_from(value) == value \in FORMAT \/ value \in FORMAT_OtherMembers

RECURSIVE BitOr(_, _)
\* a | b on non-negative integers.
BitOr(a, b) ==
    IF a = 0 THEN b
    ELSE IF b = 0 THEN a
    ELSE (IF a % 2 = 1 \/ b % 2 = 1 THEN 1 ELSE 0) + 2 * BitOr(a \div 2, b \div 2)

\* a << n and a >> n on non-negative integers below 2^31.
Shl(a, n) == a * (2 ^ n)
Shr(a, n) == a \div (2 ^ n)
\* a & 0xFF
AndFF(a) == a % 256

\* The decimal digits, as characters.
Digits == <<"0", "1", "2", "3", "4", "5", "6", "7", "8", "9">>

\* `${n}` for a non-negative integer: its decimal digits, as a sequence of
\* characters.
RECURSIVE NumberToString(_)
NumberToString(n) ==
    IF n < 10 THEN <<Digits[n + 1]>>
    ELSE Append(NumberToString(n \div 10), Digits[(n % 10) + 1])

\* ToInt32 of a string operand of >>: the number its digits spell; the empty
\* string gives 0 and a text that is no number gives NaN, which >> takes as
\* 0. undefined (None) gives 0 as well.
RECURSIVE DigitsValue(_)
DigitsValue(chars) ==
    IF chars = <<>> THEN 0
    ELSE 10 * DigitsValue(SubSeq(chars, 1, Len(chars) - 1))
         + (CHOOSE d \in 0..9 : Digits[d + 1] = chars[Len(chars)])

StringToInt32(cell) ==
    IF IsNone(cell) THEN 0
    ELSE IF \A i \in 1..Len(The(cell)) : \E d \in 1..10 : Digits[d] = The(cell)[i]
         THEN DigitsValue(The(cell))
         ELSE 0

\* text.split("|", 2): the first two pieces of the text cut at "|"; a piece
\* that does not exist is undefined (None).
StringSplit2(text) ==
    LET bars  == { i \in 1..Len(text) : text[i] = "|" }
        first == IF bars = {} THEN Len(text) + 1
                 ELSE CHOOSE i \in bars : \A j \in bars : i <= j
        later == { i \in bars : i > first }
        next  == IF later = {} THEN Len(text) + 1
                 ELSE CHOOSE i \in later : \A j \in later : i <= j
    IN  << Some(SubSeq(text, 1, first - 1)),
           IF bars = {} THEN None ELSE Some(SubSeq(text, first + 1, next - 1)) >>

\* rgbBoundsToString(lower, upper): the text `${U}|${L}` of the two packed
\* integers, upper first.
rgbBoundsToString(lower, upper) ==
    NumberToString(BitOr(BitOr(Shl(upper[1], 16), Shl(upper[2], 8)), Shl(upper[3], 0)))
    \o <<"|">> \o
    NumberToString(BitOr(BitOr(Shl(lower[1], 16), Shl(lower[2], 8)), Shl(lower[3], 0)))

\* A mutant of stringBoundsToRGB: the two pieces are taken in the other order.
stringBoundsToRGB_Swapped(bounds) ==
    LET parts == StringSplit2(bounds)
        upper == StringToInt32(parts[2])
        lower == StringToInt32(parts[1])
    IN  [ lower |-> << AndFF(Shr(lower, 16)), AndFF(Shr(lower, 8)), AndFF(Shr(lower, 0)) >>,
          upper |-> << AndFF(Shr(upper, 16)), AndFF(Shr(upper, 8)), AndFF(Shr(upper, 0)) >> ]

\* stringBoundsToRGB(bounds): split at "|", the first piece is upper.
stringBoundsToRGB(bounds) ==
    LET parts == StringSplit2(bounds)
        upper == StringToInt32(parts[1])
        lower == StringToInt32(parts[2])
    IN  [ lower |-> << AndFF(Shr(lower, 16)), AndFF(Shr(lower, 8)), AndFF(Shr(lower, 0)) >>,
          upper |-> << AndFF(Shr(upper, 16)), AndFF(Shr(upper, 8)), AndFF(Shr(upper, 0)) >> ]

\* Static tables of the class: ColorSpace.HSV, .HLS, .BGR, .LAB, .XYZ, .GRAY.
TableNames == {"HSV", "HLS", "BGR", "LAB", "XYZ", "GRAY"}

ColorKeys == {"RED", "ORANGE", "YELLOW", "GREEN", "CYAN", "BLUE", "PURPLE",
              "BLACK", "GRAY", "WHITE"}
GrayKeys == {"BLACK", "DARK_GRAY", "MEDIUM_GRAY", "LIGHT_GRAY", "WHITE"}

\* A mutant of HSV: RED without its second range.
HSV_SingleRed ==
    [ RED    |-> << rgbBoundsToString(<<0, 100, 100>>, <<10, 255, 255>>) >>,
      ORANGE |-> << rgbBoundsToString(<<11, 100, 100>>, <<23, 255, 255>>) >>,
      YELLOW |-> << rgbBoundsToString(<<24, 120, 70>>, <<35, 255, 255>>) >>,
      GREEN  |-> << rgbBoundsToString(<<36, 50, 50>>, <<85, 255, 255>>) >>,
      CYAN   |-> << rgbBoundsToString(<<86, 50, 50>>, <<100, 255, 255>>) >>,
      BLUE   |-> << rgbBoundsToString(<<101, 50, 50>>, <<130, 255, 255>>) >>,
      PURPLE |-> << rgbBoundsToString(<<131, 50, 50>>, <<169, 255, 255>>) >>,
      BLACK  |-> << rgbBoundsToString(<<0, 0, 0>>, <<179, 255, 50>>) >>,
      GRAY   |-> << rgbBoundsToString(<<0, 0, 51>>, <<179, 50, 200>>) >>,
      WHITE  |-> << rgbBoundsToString(<<0, 0, 201>>, <<179, 50, 255>>) >> ]

HSV ==
    [ RED    |-> << rgbBoundsToString(<<0, 100, 100>>, <<10, 255, 255>>),
                    rgbBoundsToString(<<170, 100, 100>>, <<179, 255, 255>>) >>,
      ORANGE |-> << rgbBoundsToString(<<11, 100, 100>>, <<23, 255, 255>>) >>,
      YELLOW |-> << rgbBoundsToString(<<24, 120, 70>>, <<35, 255, 255>>) >>,
      GREEN  |-> << rgbBoundsToString(<<36, 50, 50>>, <<85, 255, 255>>) >>,
      CYAN   |-> << rgbBoundsToString(<<86, 50, 50>>, <<100, 255, 255>>) >>,
      BLUE   |-> << rgbBoundsToString(<<101, 50, 50>>, <<130, 255, 255>>) >>,
      PURPLE |-> << rgbBoundsToString(<<131, 50, 50>>, <<169, 255, 255>>) >>,
      BLACK  |-> << rgbBoundsToString(<<0, 0, 0>>, <<179, 255, 50>>) >>,
      GRAY   |-> << rgbBoundsToString(<<0, 0, 51>>, <<179, 50, 200>>) >>,
      WHITE  |-> << rgbBoundsToString(<<0, 0, 201>>, <<179, 50, 255>>) >> ]

\* A mutant of HLS: the ORANGE range reaches into the hues of YELLOW.
HLS_WideOrange ==
    [ RED    |-> << rgbBoundsToString(<<0, 50, 100>>, <<10, 255, 255>>),
                    rgbBoundsToString(<<170, 50, 100>>, <<179, 255, 255>>) >>,
      ORANGE |-> << rgbBoundsToString(<<11, 50, 100>>, <<30, 255, 255>>) >>,
      YELLOW |-> << rgbBoundsToString(<<26, 50, 100>>, <<35, 255, 255>>) >>,
      GREEN  |-> << rgbBoundsToString(<<36, 50, 50>>, <<85, 255, 255>>) >>,
      CYAN   |-> << rgbBoundsToString(<<86, 50, 50>>, <<100, 255, 255>>) >>,
      BLUE   |-> << rgbBoundsToString(<<101, 50, 50>>, <<130, 255, 255>>) >>,
      PURPLE |-> << rgbBoundsToString(<<131, 50, 50>>, <<169, 255, 255>>) >>,
      BLACK  |-> << rgbBoundsToString(<<0, 0, 0>>, <<179, 50, 255>>) >>,
      GRAY   |-> << rgbBoundsToString(<<0, 51, 0>>, <<179, 200, 50>>) >>,
      WHITE  |-> << rgbBoundsToString(<<0, 201, 0>>, <<179, 255, 50>>) >> ]

HLS ==
    [ RED    |-> << rgbBoundsToString(<<0, 50, 100>>, <<10, 255, 255>>),
                    rgbBoundsToString(<<170, 50, 100>>, <<179, 255, 255>>) >>,
      ORANGE |-> << rgbBoundsToString(<<11, 50, 100>>, <<25, 255, 255>>) >>,
      YELLOW |-> << rgbBoundsToString(<<26, 50, 100>>, <<35, 255, 255>>) >>,
      GREEN  |-> << rgbBoundsToString(<<36, 50, 50>>, <<85, 255, 255>>) >>,
      CYAN   |-> << rgbBoundsToString(<<86, 50, 50>>, <<100, 255, 255>>) >>,
      BLUE   |-> << rgbBoundsToString(<<101, 50, 50>>, <<130, 255, 255>>) >>,
      PURPLE |-> << rgbBoundsToString(<<131, 50, 50>>, <<169, 255, 255>>) >>,
      BLACK  |-> << rgbBoundsToString(<<0, 0, 0>>, <<179, 50, 255>>) >>,
      GRAY   |-> << rgbBoundsToString(<<0, 51, 0>>, <<179, 200, 50>>) >>,
      WHITE  |-> << rgbBoundsToString(<<0, 201, 0>>, <<179, 255, 50>>) >> ]

BGR ==
    [ RED    |-> << rgbBoundsToString(<<0, 0, 100>>, <<80, 80, 255>>) >>,
      ORANGE |-> << rgbBoundsToString(<<0, 80, 150>>, <<100, 180, 255>>) >>,
      YELLOW |-> << rgbBoundsToString(<<0, 150, 150>>, <<100, 255, 255>>) >>,
      GREEN  |-> << rgbBoundsToString(<<0, 100, 0>>, <<80, 255, 80>>) >>,
      CYAN   |-> << rgbBoundsToString(<<100, 150, 0>>, <<255, 255, 100>>) >>,
      BLUE   |-> << rgbBoundsToString(<<100, 0, 0>>, <<255, 80, 80>>) >>,
      PURPLE |-> << rgbBoundsToString(<<100, 0, 100>>, <<255, 80, 255>>) >>,
      BLACK  |-> << rgbBoundsToString(<<0, 0, 0>>, <<50, 50, 50>>) >>,
      GRAY   |-> << rgbBoundsToString(<<51, 51, 51>>, <<200, 200, 200>>) >>,
      WHITE  |-> << rgbBoundsToString(<<201, 201, 201>>, <<255, 255, 255>>) >> ]

LAB ==
    [ RED    |-> << rgbBoundsToString(<<20, 150, 150>>, <<255, 255, 255>>) >>,
      ORANGE |-> << rgbBoundsToString(<<50, 128, 150>>, <<230, 200, 220>>) >>,
      YELLOW |-> << rgbBoundsToString(<<80, 100, 150>>, <<255, 127, 255>>) >>,
      GREEN  |-> << rgbBoundsToString(<<20, 0, 100>>, <<200, 120, 140>>) >>,
      CYAN   |-> << rgbBoundsToString(<<50, 0, 100>>, <<200, 128, 127>>) >>,
      BLUE   |-> << rgbBoundsToString(<<20, 128, 0>>, <<200, 255, 127>>) >>,
      PURPLE |-> << rgbBoundsToString(<<20, 140, 0>>, <<200, 255, 140>>) >>,
      BLACK  |-> << rgbBoundsToString(<<0, 0, 0>>, <<50, 255, 255>>) >>,
      GRAY   |-> << rgbBoundsToString(<<51, 118, 118>>, <<200, 138, 138>>) >>,
      WHITE  |-> << rgbBoundsToString(<<201, 118, 118>>, <<255, 138, 138>>) >> ]

XYZ ==
    [ RED    |-> << rgbBoundsToString(<<20, 10, 0>>, <<180, 100, 50>>) >>,
      ORANGE |-> << rgbBoundsToString(<<80, 50, 10>>, <<200, 140, 80>>) >>,
      YELLOW |-> << rgbBoundsToString(<<120, 120, 20>>, <<255, 255, 150>>) >>,
      GREEN  |-> << rgbBoundsToString(<<10, 20, 10>>, <<100, 150, 80>>) >>,
      CYAN   |-> << rgbBoundsToString(<<80, 120, 120>>, <<200, 255, 255>>) >>,
      BLUE   |-> << rgbBoundsToString(<<10, 10, 50>>, <<100, 100, 200>>) >>,
      PURPLE |-> << rgbBoundsToString(<<40, 20, 80>>, <<150, 100, 220>>) >>,
      BLACK  |-> << rgbBoundsToString(<<0, 0, 0>>, <<25, 25, 25>>) >>,
      GRAY   |-> << rgbBoundsToString(<<26, 26, 26>>, <<150, 150, 150>>) >>,
      WHITE  |-> << rgbBoundsToString(<<151, 151, 151>>, <<255, 255, 255>>) >> ]

GRAY ==
    [ BLACK       |-> << rgbBoundsToString(<<0, 0, 0>>, <<50, 0, 0>>) >>,
      DARK_GRAY   |-> << rgbBoundsToString(<<51, 0, 0>>, <<100, 0, 0>>) >>,
      MEDIUM_GRAY |-> << rgbBoundsToString(<<101, 0, 0>>, <<170, 0, 0>>) >>,
      LIGHT_GRAY  |-> << rgbBoundsToString(<<171, 0, 0>>, <<220, 0, 0>>) >>,
      WHITE       |-> << rgbBoundsToString(<<221, 0, 0>>, <<255, 0, 0>>) >> ]

\* ColorSpace[format] for a name with a table.
Table(format) ==
    CASE format = "HSV"  -> HSV
      [] format = "HLS"  -> HLS
      [] format = "BGR"  -> BGR
      [] format = "LAB"  -> LAB
      [] format = "XYZ"  -> XYZ
      [] format = "GRAY" -> GRAY

\* ColorSpace[format][colorKey]: the packed strings, <<>> standing for undefined.
TableLookup(format, colorKey) ==
    IF format \in TableNames /\ colorKey \in DOMAIN Table(format)
    THEN Table(format)[colorKey]
    ELSE <<>>

\* bounds.map(boundStr => ColorSpace.stringBoundsToRGB(boundStr))
DecodeBounds(bounds) == [i \in 1..Len(bounds) |-> stringBoundsToRGB(bounds[i])]

Max3(a, b, c) == IF a >= b /\ a >= c THEN a ELSE IF b >= c THEN b ELSE c
Min3(a, b, c) == IF a <= b /\ a <= c THEN a ELSE IF b <= c THEN b ELSE c

\* v > c * 0.6, v > c * 0.85, v > c * 0.5 on integers 0..255: the double
\* product compares like the exact one.
Gt060(v, c) == 10 * v > 6 * c
Gt085(v, c) == 100 * v > 85 * c
Gt050(v, c) == 2 * v > c
\* v > c * 0.7: the double products 90*0.7, 170*0.7 and 180*0.7 fall just
\* below 63, 119 and 126, so the comparison is true at equality there.
Gt070(v, c) == 10 * v > 7 * c \/ (c \in {90, 170, 180} /\ 10 * v = 7 * c)

\* The colour key ColorClosestToRGB picks before the GRAY override.
ClosestColorKey(r, g, b) ==
    LET max  == Max3(r, g, b)
        min  == Min3(r, g, b)
        diff == max - min
        sum  == r + g + b          \* avg = sum / 3
    IN  IF diff < 30
        THEN IF sum < 150 THEN "BLACK"
             ELSE IF sum > 660 THEN "WHITE"
             ELSE "GRAY"
        ELSE IF max = r
             THEN IF g > b /\ Gt060(g, r)
                  THEN (IF Gt085(g, r) THEN "YELLOW" ELSE "ORANGE")
                  ELSE IF b > g /\ Gt050(b, r) THEN "PURPLE"
                  ELSE "RED"
             ELSE IF max = g
             THEN IF r > b /\ Gt070(r, g) THEN "YELLOW"
                  ELSE IF b > r /\ Gt070(b, g) THEN "CYAN"
                  ELSE "GREEN"
             ELSE IF r > g /\ Gt050(r, b) THEN "PURPLE"
                  ELSE IF g > r /\ Gt070(g, b) THEN "CYAN"
                  ELSE "BLUE"

\* The key for format 'GRAY': mean-brightness bands.
ClosestGrayKey(r, g, b) ==
    LET sum == r + g + b
    IN  IF sum > 660 THEN "WHITE"
        ELSE IF sum > 510 THEN "LIGHT_GRAY"
        ELSE IF sum > 300 THEN "MEDIUM_GRAY"
        ELSE IF sum > 150 THEN "DARK_GRAY"
        ELSE "BLACK"

\* ColorSpace.ColorClosestToRGB(rgb, format): [] when ColorSpace[format] is
\* not a table (among them 'Lab', whose table is named LAB) or lacks the key.
ColorClosestToRGB(rgb, format) ==
    LET colorKey == IF format = "GRAY"
                    THEN ClosestGrayKey(rgb[1], rgb[2], rgb[3])
                    ELSE ClosestColorKey(rgb[1], rgb[2], rgb[3])
    IN  IF format \notin TableNames
        THEN <<>>
        ELSE DecodeBounds(TableLookup(format, colorKey))

----------------------------------------------------------------------------
\* modules/tracking.global.js

\* rgba(224, 138, 9, 1): the default selected colour.
DefaultColor == <<224, 138, 9>>

\* Milliseconds between calls to throttle.
THROTTLED == 50

Properties == {"tapPosition", "selectedColor", "colorFormat"}

\* Mutants of isThrottled: a throttled call restarts the window; one window
\* shared by all properties; the window is not enforced.
isThrottled_Restart(tls, property, t) ==
    LET previous == tls[property]
    IN  [ throttled |-> previous # 0 /\ t - previous < THROTTLED,
          tls       |-> [tls EXCEPT ![property] = t] ]

isThrottled_Shared(tls, property, t) ==
    LET previous == Max3(tls["tapPosition"], tls["selectedColor"], tls["colorFormat"])
    IN  IF previous # 0 /\ t - previous < THROTTLED
        THEN [throttled |-> TRUE, tls |-> tls]
        ELSE [throttled |-> FALSE, tls |-> [tls EXCEPT ![property] = t]]

isThrottled_Never(tls, property, t) ==
    [throttled |-> FALSE, tls |-> [tls EXCEPT ![property] = t]]

\* isThrottled(property): whether the call is throttled, and timeLastSent
\* after the call (updated only when the call is not throttled).
isThrottled(tls, property, t) ==
    LET previous == tls[property]
    IN  IF previous # 0 /\ t - previous < THROTTLED
        THEN [throttled |-> TRUE, tls |-> tls]
        ELSE [throttled |-> FALSE, tls |-> [tls EXCEPT ![property] = t]]

\* What a setter call did: "same" (no change), "throttled", "invalid"
\* (rejected format) or "applied"; val and tls are the cell and timeLastSent
\* after the call.
SetterResult(path, val, tls) == [path |-> path, val |-> val, tls |-> tls]

\* setTapPosition(value)
setTapPositionResult(value) ==
    IF LooseEqFresh(value, tapPosition)
    THEN SetterResult("same", tapPosition, timeLastSent)
    ELSE LET th == isThrottled(timeLastSent, "tapPosition", now)
         IN  IF th.throttled
             THEN SetterResult("throttled", tapPosition, th.tls)
             ELSE SetterResult("applied", value, th.tls)

\* setSelectedColor(value)
setSelectedColorResult(value) ==
    IF LooseEqFresh(value, selectedColor)
    THEN SetterResult("same", selectedColor, timeLastSent)
    ELSE LET th == isThrottled(timeLastSent, "selectedColor", now)
         IN  IF th.throttled
             THEN SetterResult("throttled", selectedColor, th.tls)
             ELSE SetterResult("applied", value, th.tls)

\* setColorFormat(type): the validity check comes after the throttle check,
\* which has already recorded the call.
setColorFormatResult(type) ==
    IF type = colorFormat
    THEN SetterResult("same", colorFormat, timeLastSent)
    ELSE LET th == isThrottled(timeLastSent, "colorFormat", now)
         IN  IF th.throttled
             THEN SetterResult("throttled", colorFormat, th.tls)
             ELSE IF ~FORMAT_from(type)
             THEN SetterResult("invalid", colorFormat, th.tls)
             ELSE SetterResult("applied", type, th.tls)

setTapPosition(value) ==
    LET res == setTapPositionResult(value)
    IN  /\ tapPosition' = res.val
        /\ timeLastSent' = res.tls
        /\ UNCHANGED <<colorFormat, selectedColor, colorFilter, now>>

setSelectedColor(value) ==
    LET res == setSelectedColorResult(value)
    IN  /\ selectedColor' = res.val
        /\ timeLastSent' = res.tls
        /\ UNCHANGED <<tapPosition, colorFormat, colorFilter, now>>

setColorFormat(type) ==
    LET res == setColorFormatResult(type)
    IN  /\ colorFormat' = res.val
        /\ timeLastSent' = res.tls
        /\ UNCHANGED <<tapPosition, selectedColor, colorFilter, now>>

\* A mutant of ResetCells: a tap is left pending.
ResetCells_KeepTap(formatCell, colorCell) ==
    LET fmt0 == IF TypeofStringCellIsObject(formatCell) THEN Null ELSE formatCell
        col0 == IF IsNone(colorCell) \/ Len(colorCell) = 1 THEN None ELSE colorCell
        fmt1 == IF FalsyString(fmt0) THEN "HSV" ELSE fmt0
        col1 == IF IsNone(col0) THEN Some(DefaultColor) ELSE col0
    IN  [ tapPosition   |-> Some([x |-> 1, y |-> 1]),
          colorFormat   |-> fmt1,
          selectedColor |-> col1,
          colorFilter   |-> Some(ColorClosestToRGB(The(col1), fmt1)) ]

\* The cells after resetToDefaults() ran on a format cell and a colour cell.
\* The colour cell holds null or an array, both of type 'object', so it is
\* always cleared and takes the default; the format cell is cleared only
\* when it holds null, so a format string stays.
ResetCells(formatCell, colorCell) ==
    LET fmt0 == IF TypeofStringCellIsObject(formatCell) THEN Null ELSE formatCell
        col0 == IF IsNone(colorCell) \/ Len(colorCell) = 1 THEN None ELSE colorCell
        fmt1 == IF FalsyString(fmt0) THEN "HSV" ELSE fmt0
        col1 == IF IsNone(col0) THEN Some(DefaultColor) ELSE col0
    IN  [ tapPosition   |-> None,
          colorFormat   |-> fmt1,
          selectedColor |-> col1,
          colorFilter   |-> Some(ColorClosestToRGB(The(col1), fmt1)) ]

resetToDefaults ==
    LET cells == ResetCells(colorFormat, selectedColor)
    IN  /\ tapPosition' = cells.tapPosition
        /\ colorFormat' = cells.colorFormat
        /\ selectedColor' = cells.selectedColor
        /\ colorFilter' = cells.colorFilter
        /\ UNCHANGED <<timeLastSent, now>>

\* Date.now() advances.
Tick ==
    /\ now + TickStep <= MaxTime
    /\ now' = now + TickStep
    /\ UNCHANGED <<tapPosition, colorFormat, selectedColor, colorFilter, timeLastSent>>

----------------------------------------------------------------------------
\* modules/AdvancedColorDetector.js, as far as the poller reaches it

\* JavaScript values handed to detectColor as the sample: an array of
\* channels (kind "array"), undefined, or a string. A channel is a number,
\* held as twice its value so that halves are numbers of the model (type
\* "number"), NaN, or a string of digits.
JSNumber(n) == [type |-> "number", twice |-> 2 * n]
JSArray(rgb) == [kind |-> "array", items |-> [i \in 1..Len(rgb) |-> JSNumber(rgb[i])]]

\* typeof val === 'number': NaN is a number.
TypeofNumber(val) == val.type \in {"number", "NaN"}

\* A mutant of validateRGB: the range of the channels is not tested.
validateRGB_NoRange(rgb) ==
    /\ rgb.kind = "array" /\ Len(rgb.items) = 3
    /\ \A i \in 1..3 : TypeofNumber(rgb.items[i])

\* validateRGB(rgb): an array of three numbers in [0, 255]. val >= 0 and
\* val <= 255 are false for NaN.
validateRGB(rgb) ==
    /\ rgb.kind = "array" /\ Len(rgb.items) = 3
    /\ \A i \in 1..3 : /\ TypeofNumber(rgb.items[i])
                        /\ rgb.items[i].type = "number"
                        /\ rgb.items[i].twice >= 2 * 0
                        /\ rgb.items[i].twice <= 2 * 255

\* The first statements of detectColor (lines 15-20): `const [r, g, b] = rgb`
\* throws a TypeError for a sample that is not iterable, then an Error is
\* thrown for a sample validateRGB rejects; otherwise the stages run and a
\* classification is returned.
detectColorOutcome(rgb) ==
    IF rgb.kind = "undefined" THEN "TypeError"
    ELSE IF ~validateRGB(rgb) THEN "Error"
    ELSE "classified"

\* The mode detectColor works in: anything but 'GRAY' and 'COLOR' is 'COLOR'.
DetectMode(format) == IF format \in {"GRAY", "COLOR"} THEN format ELSE "COLOR"

\* The classification stages of detectColor. They are left open here (some
\* key of the mode): the tracking screen never calls detectColor with a
\* sample, see PollerDerive.
Classify(rgb, mode) ==
    CHOOSE k \in (IF mode = "GRAY" THEN GrayKeys ELSE ColorKeys) : TRUE

\* detectColor(rgb, format).primary, or the error it throws: destructuring
\* null throws a TypeError, an invalid sample an Error.
detectColor(rgbCell, format) ==
    IF IsNone(rgbCell) \/ ~validateRGB(JSArray(The(rgbCell)))
    THEN [threw |-> TRUE, primary |-> Null]
    ELSE [threw |-> FALSE, primary |-> Classify(The(rgbCell), DetectMode(format))]

----------------------------------------------------------------------------
\* modules/AdvancedColorDetector.js: luminance and the achromatic stage

\* Natural numbers beyond the integers of the model: sequences of digits to
\* the base 10000, least significant first, without leading zeros.
RECURSIVE BigTimes(_, _, _)
BigTimes(a, k, carry) ==
    IF a = <<>>
    THEN IF carry = 0 THEN <<>>
         ELSE <<carry % 10000>> \o BigTimes(<<>>, k, carry \div 10000)
    ELSE LET t == Head(a) * k + carry
         IN  <<t % 10000>> \o BigTimes(Tail(a), k, t \div 10000)

\* big * k^n, for k > 0.
RECURSIVE BigTimesPower(_, _, _)
BigTimesPower(big, k, n) ==
    IF n = 0 THEN big ELSE BigTimesPower(BigTimes(big, k, 0), k, n - 1)

BigLess(a, b) ==
    \/ Len(a) < Len(b)
    \/ /\ Len(a) = Len(b)
       /\ \E i \in 1..Len(a) :
            a[i] < b[i] /\ \A j \in (i + 1)..Len(a) : a[j] = b[j]

\* One channel of calculateRelativeLuminance, compared with k/1000:
\* c = v/255 and c <= 0.03928 ? c / 12.92 : Math.pow((c + 0.055) / 1.055, 2.4).
\* (c + 0.055) / 1.055 is (40v + 561) / 10761, and x^2.4 compares with
\* k/1000 as x^12 compares with (k/1000)^5.
LinearAtLeast(v, k) ==
    IF 100000 * v <= 3928 * 255 THEN 100000 * v >= k * 329460
    ELSE k = 0 \/ ~BigLess(BigTimesPower(BigTimesPower(<<1>>, 40 * v + 561, 12), 1000, 5),
                           BigTimesPower(BigTimesPower(<<1>>, 10761, 12), k, 5))
LinearAtMost(v, k) ==
    IF 100000 * v <= 3928 * 255 THEN 100000 * v <= k * 329460
    ELSE k > 0 /\ ~BigLess(BigTimesPower(BigTimesPower(<<1>>, 10761, 12), k, 5),
                           BigTimesPower(BigTimesPower(<<1>>, 40 * v + 561, 12), 1000, 5))

\* The greatest k in lo..hi with k/1000 <= the linear value of v.
RECURSIVE LinearFloor(_, _, _)
LinearFloor(v, lo, hi) ==
    IF lo = hi THEN lo
    ELSE LET mid == (lo + hi + 1) \div 2
         IN  IF LinearAtLeast(v, mid) THEN LinearFloor(v, mid, hi)
             ELSE LinearFloor(v, lo, mid - 1)

\* calculateRelativeLuminance(r, g, b) for r = g = b, where the weights
\* 0.2126, 0.7152 and 0.0722 add up to one: the luminance as the thousandths
\* just below and just above it (lo <= 1000 L <= hi, hi - lo <= 1). Every
\* number the luminance is compared with is a whole number of thousandths.
calculateRelativeLuminance(r, g, b) ==
    LET lo == LinearFloor(r, 0, 1000)
    IN  [lo |-> lo, hi |-> IF LinearAtMost(r, lo) THEN lo ELSE lo + 1]

\* luminance < k/1000 and luminance > k/1000.
LuminanceLt(luminance, k) == luminance.lo < k
LuminanceGt(luminance, k) == luminance.hi > k

\* hsv.s < pct/100, with s = delta / max on the channels divided by 255 (0
\* for max = 0). At the pairs listed the quotient of the doubles falls just
\* below the exact value pct/100.
SaturationLt(max, min, pct) ==
    \/ max = 0
    \/ 100 * (max - min) < pct * max
    \/ /\ pct = 8  /\ <<max, min>> \in {<<125, 115>>, <<225, 207>>, <<250, 230>>}
    \/ /\ pct = 15 /\ <<max, min>> \in {<<60, 51>>, <<120, 102>>, <<240, 204>>}

\* calculateChromaticness(r, g, b) < 0.12
ChromaticnessLt012(max, min) == max = 0 \/ 100 * (max - min) < 12 * max

Abs(n) == IF n < 0 THEN -n ELSE n

\* The isAchromatic test of classifyAchromatic (lines 236-240).
isAchromatic(rgb) ==
    LET r == rgb[1]
        g == rgb[2]
        b == rgb[3]
        max == Max3(r, g, b)
        min == Min3(r, g, b)
        deviationSum == Abs(r - g) + Abs(g - b) + Abs(b - r)
        maxDeviation == Max3(Abs(r - g), Abs(g - b), Abs(b - r))
        threshold == IF r + g + b < 150 THEN 8 ELSE IF r + g + b > 600 THEN 12 ELSE 10
    IN  \/ SaturationLt(max, min, 8) /\ ChromaticnessLt012(max, min)
        \/ deviationSum < 3 * threshold /\ 2 * maxDeviation < 3 * threshold
        \/ max - min < 15 /\ SaturationLt(max, min, 15)

\* A mutant of classifyAchromatic: the bands of the luminance alone.
classifyAchromatic_LuminanceOnly(rgb, luminance) ==
    IF ~isAchromatic(rgb) THEN Null
    ELSE IF LuminanceLt(luminance, 20) THEN "BLACK"
    ELSE IF LuminanceLt(luminance, 150) THEN "VERY_DARK_GRAY"
    ELSE IF LuminanceLt(luminance, 300) THEN "DARK_GRAY"
    ELSE IF LuminanceLt(luminance, 500) THEN "MEDIUM_DARK_GRAY"
    ELSE IF LuminanceLt(luminance, 650) THEN "MEDIUM_GRAY"
    ELSE IF LuminanceLt(luminance, 800) THEN "LIGHT_GRAY"
    ELSE IF LuminanceLt(luminance, 950) THEN "VERY_LIGHT_GRAY"
    ELSE "WHITE"

\* classifyAchromatic(rgb, hsv, hsl, luminance, chromaticness).color, Null
\* when the sample is not achromatic. brightness is (r + g + b) / 3.
classifyAchromatic(rgb, luminance) ==
    LET sum == rgb[1] + rgb[2] + rgb[3]
    IN  IF ~isAchromatic(rgb) THEN Null
        ELSE IF LuminanceLt(luminance, 20) \/ sum < 3 * 15 THEN "BLACK"
        ELSE IF LuminanceGt(luminance, 950) \/ sum > 3 * 245 THEN "WHITE"
        ELSE IF LuminanceLt(luminance, 150) THEN "VERY_DARK_GRAY"
        ELSE IF LuminanceLt(luminance, 300) THEN "DARK_GRAY"
        ELSE IF LuminanceLt(luminance, 500) THEN "MEDIUM_DARK_GRAY"
        ELSE IF LuminanceLt(luminance, 650) THEN "MEDIUM_GRAY"
        ELSE IF LuminanceLt(luminance, 800) THEN "LIGHT_GRAY"
        ELSE "VERY_LIGHT_GRAY"

\* The maps of simplifyColor.
grayMap ==
    [ BLACK |-> "BLACK", VERY_DARK_GRAY |-> "DARK_GRAY", DARK_GRAY |-> "DARK_GRAY",
      MEDIUM_DARK_GRAY |-> "MEDIUM_GRAY", MEDIUM_GRAY |-> "MEDIUM_GRAY",
      LIGHT_GRAY |-> "LIGHT_GRAY", VERY_LIGHT_GRAY |-> "LIGHT_GRAY", WHITE |-> "WHITE" ]

colorMap ==
    [ PURE_RED |-> "RED", RED |-> "RED", DARK_RED |-> "RED", PINK_RED |-> "RED",
      RED_ORANGE |-> "ORANGE", ORANGE |-> "ORANGE", DARK_ORANGE |-> "ORANGE",
      BRIGHT_ORANGE |-> "ORANGE", BROWN |-> "ORANGE",
      YELLOW_ORANGE |-> "YELLOW", YELLOW |-> "YELLOW", DARK_YELLOW |-> "YELLOW",
      OLIVE |-> "YELLOW",
      YELLOW_GREEN |-> "GREEN", PURE_GREEN |-> "GREEN", GREEN |-> "GREEN",
      DARK_GREEN |-> "GREEN", CYAN_GREEN |-> "GREEN",
      CYAN |-> "CYAN", DARK_CYAN |-> "CYAN", CYAN_BLUE |-> "CYAN", TEAL |-> "CYAN",
      BLUE |-> "BLUE", PURE_BLUE |-> "BLUE", DARK_BLUE |-> "BLUE", NAVY |-> "BLUE",
      BLUE_PURPLE |-> "BLUE",
      PURPLE |-> "PURPLE", DARK_PURPLE |-> "PURPLE", VIOLET |-> "PURPLE",
      RED_PURPLE |-> "PURPLE", MAGENTA |-> "PURPLE", DARK_MAGENTA |-> "PURPLE",
      PINK |-> "PURPLE", LIGHT_PINK |-> "PURPLE", HOT_PINK |-> "PURPLE",
      BLACK |-> "BLACK", VERY_DARK_GRAY |-> "GRAY", DARK_GRAY |-> "GRAY",
      MEDIUM_DARK_GRAY |-> "GRAY", MEDIUM_GRAY |-> "GRAY", LIGHT_GRAY |-> "GRAY",
      VERY_LIGHT_GRAY |-> "GRAY", WHITE |-> "WHITE",
      MUTED_RED |-> "GRAY", MUTED_ORANGE |-> "GRAY", MUTED_YELLOW |-> "GRAY",
      MUTED_GREEN |-> "GRAY", MUTED_CYAN |-> "GRAY", MUTED_BLUE |-> "GRAY",
      MUTED_PURPLE |-> "GRAY" ]

\* A mutant of simplifyColor: the detailed name is passed through.
simplifyColor_Detailed(detailedColor, format) == detailedColor

\* simplifyColor(detailedColor, format): map[detailedColor] || default.
simplifyColor(detailedColor, format) ==
    IF format = "GRAY"
    THEN IF detailedColor \in DOMAIN grayMap THEN grayMap[detailedColor]
         ELSE "MEDIUM_GRAY"
    ELSE IF detailedColor \in DOMAIN colorMap THEN colorMap[detailedColor]
         ELSE "GRAY"

\* convertToGray(luminance)
convertToGray(luminance) ==
    IF LuminanceLt(luminance, 20) THEN "BLACK"
    ELSE IF LuminanceLt(luminance, 200) THEN "DARK_GRAY"
    ELSE IF LuminanceLt(luminance, 500) THEN "MEDIUM_GRAY"
    ELSE IF LuminanceLt(luminance, 800) THEN "LIGHT_GRAY"
    ELSE IF LuminanceGt(luminance, 950) THEN "WHITE"
    ELSE "LIGHT_GRAY"

\* Stage 1 of detectColor (lines 51-58) on a sample with equal channels: the
\* achromatic result is the detailed colour, its simplification the primary.
detectColorGray(level, format) ==
    LET rgb == <<level, level, level>>
        luminance == calculateRelativeLuminance(level, level, level)
        color == classifyAchromatic(rgb, luminance)
    IN  [ detailedColor |-> color,
          primary       |-> simplifyColor(color, DetectMode(format)),
          luminance     |-> luminance ]

\* detectColor(rgb, format).primary from the results of its stages (lines
\* 51-96): achromaticResult is the colour of classifyAchromatic or Null,
\* detailedColor what stages 2 to 4 (classifyChromatic, refineDarkColor,
\* refineDesaturatedColor) arrive at.
detectColorPrimary(achromaticResult, detailedColor, luminance, format) ==
    IF achromaticResult # Null
    THEN simplifyColor(achromaticResult, DetectMode(format))
    ELSE IF DetectMode(format) = "GRAY"
    THEN convertToGray(luminance)
    ELSE simplifyColor(detailedColor, DetectMode(format))

----------------------------------------------------------------------------
\* Tracking screen: focus effects and the poller

\* Colour spaces requested through setColorFormat, valid or not.
FormatInputs == {"HSV", "HLS", "GRAY", "Lab", "RGB", "from", "toString"}

\* Tap coordinates: one inside the frame, one outside.
TapInputs == { [x |-> 1, y |-> 1], [x |-> FrameWidth, y |-> 0] }

\* A step changes the colour space or the target colour.
SelectionChanges == colorFormat' # colorFormat \/ selectedColor' # selectedColor

\* The poller callback that is running learns of a selection change.
NoteChange ==
    pollSnap' = IF pollPc # "idle" /\ SelectionChanges
                THEN [pollSnap EXCEPT !.dirty = TRUE]
                ELSE pollSnap

\* setInterval(callback, 2000): a new entry of the timer table under an id
\* no live timer has.
setInterval(timers) ==
    LET id == CHOOSE n \in 1..(Cardinality(timers) + 1) : n \notin timers
    IN  [id |-> id, timers |-> timers \cup {id}]

\* A mutant of clearInterval: the entry stays in the timer table.
clearInterval_Leak(timers, idCell) == timers

\* clearInterval(intervalId.current): the entry of that id is removed;
\* clearInterval(null) does nothing.
clearInterval(timers, idCell) ==
    IF IsNone(idCell) THEN timers ELSE timers \ {The(idCell)}

\* useEffect on isFocused: resetToDefaults(); the interval effect creates
\* the interval and stores its id in intervalId.current.
FocusGained ==
    /\ ~isFocused
    /\ isFocused' = TRUE
    /\ resetToDefaults
    /\ LET set == setInterval(scheduled)
       IN  /\ scheduled' = set.timers
           /\ intervalId' = Some(set.id)
    /\ NoteChange
    /\ UNCHANGED <<selectedColor_JS, pollPc, frameVars, log, sampleVars, fnVars>>

\* Focus lost: the interval effect's cleanup clears the interval; the store
\* is left as it is.
FocusLost ==
    /\ isFocused
    /\ isFocused' = FALSE
    /\ scheduled' = clearInterval(scheduled, intervalId)
    /\ intervalId' = None
    /\ UNCHANGED <<storeVars, selectedColor_JS, pollPc, pollSnap, frameVars, log, sampleVars, fnVars>>

\* requestColorSpace: setColorFormat(type) from the control context.
RequestColorSpace(type) ==
    /\ setColorFormat(type)
    /\ NoteChange
    /\ UNCHANGED <<isFocused, intervalId, scheduled, selectedColor_JS, pollPc, frameVars, log, sampleVars, fnVars>>

\* Pressable.onPress: setTapPosition({x, y}) while the camera view is shown.
RequestTap(tap) ==
    /\ isFocused
    /\ setTapPosition(Some(tap))
    /\ UNCHANGED <<screenVars, frameVars, log, sampleVars, fnVars>>

ClockTick ==
    /\ Tick
    /\ UNCHANGED <<screenVars, frameVars, log, sampleVars, fnVars>>

\* ColorSpace[format][detectColor(colorJS, format).primary].map(decode):
\* throws when detectColor throws, when ColorSpace[format] is undefined or
\* when the key is not in the table.
PollerDerive(colorJS, format) ==
    LET det    == detectColor(colorJS, format)
        bounds == IF det.threw THEN <<>> ELSE TableLookup(format, det.primary)
    IN  IF det.threw \/ format \notin TableNames \/ bounds = <<>>
        THEN [threw |-> TRUE, filter |-> <<>>]
        ELSE [threw |-> FALSE, filter |-> DecodeBounds(bounds)]

\* The interval fires: the callback runs up to `await getColorFormat()`.
PollerTick ==
    /\ scheduled # {}
    /\ pollPc = "idle"
    /\ pollPc' = "awaitFormat"
    /\ pollSnap' = [left |-> Null, dirty |-> FALSE]
    /\ UNCHANGED <<storeVars, isFocused, intervalId, scheduled, selectedColor_JS, frameVars, log, sampleVars, fnVars>>

\* The callback resumes and reads colorFormat.value, the left operand of the
\* comparison; getColorFormat() returned the shared value colorFormat itself.
PollerReadLeft ==
    /\ pollPc = "awaitFormat"
    /\ pollPc' = "compare"
    /\ pollSnap' = [pollSnap EXCEPT !.left = colorFormat]
    /\ UNCHANGED <<storeVars, isFocused, intervalId, scheduled, selectedColor_JS, frameVars, log, sampleVars, fnVars>>

\* It reads newFormat.value, the same cell: the two differ only when a
\* setColorFormat of the worklet context landed in between. Then the value is
\* written back and the filter derived from selectedColor_JS; a throw ends
\* the callback. Otherwise it goes on to `await getSelectedColor()`.
PollerCompare ==
    /\ pollPc = "compare"
    /\ LET right == colorFormat
           der   == PollerDerive(selectedColor_JS, right)
       IN  IF pollSnap.left # right
           THEN /\ colorFormat' = right
                /\ colorFilter' = IF der.threw THEN colorFilter ELSE Some(der.filter)
                /\ pollPc' = IF der.threw THEN "idle" ELSE "awaitColor"
           ELSE /\ UNCHANGED <<colorFormat, colorFilter>>
                /\ pollPc' = "awaitColor"
    /\ pollSnap' = [pollSnap EXCEPT !.left = Null]
    /\ UNCHANGED <<tapPosition, selectedColor, timeLastSent, now>>
    /\ UNCHANGED <<isFocused, intervalId, scheduled, selectedColor_JS, frameVars, log, sampleVars, fnVars>>

\* String(array): the elements joined by commas.
ArrayToString(a) == <<"csv", a>>
\* JSON.stringify of a colour cell.
JSONstringify(cell) == IF IsNone(cell) THEN <<"lit", <<>> >> ELSE <<"json", The(cell)>>
\* js != text: null never equals a string, an array is compared as a string.
LooseNeqText(jsCell, text) == IsNone(jsCell) \/ ArrayToString(The(jsCell)) # text
\* JSON.parse(cell value): the array is first turned into "r,g,b", which is
\* no JSON text; null becomes "null" and parses to null.
JSONparse(cell) ==
    IF IsNone(cell) THEN [threw |-> FALSE, val |-> None]
                    ELSE [threw |-> TRUE, val |-> None]

\* The callback resumes after getSelectedColor(): lines 139-145.
PollerColor ==
    /\ pollPc = "awaitColor"
    /\ LET differs == LooseNeqText(selectedColor_JS, JSONstringify(selectedColor))
           parsed  == JSONparse(selectedColor)
           der     == PollerDerive(parsed.val, colorFormat)
       IN  IF differs /\ ~parsed.threw
           THEN /\ selectedColor_JS' = parsed.val
                /\ colorFilter' = IF der.threw THEN colorFilter ELSE Some(der.filter)
           ELSE UNCHANGED <<selectedColor_JS, colorFilter>>
    /\ pollPc' = "idle"
    /\ UNCHANGED <<tapPosition, colorFormat, selectedColor, timeLastSent, now>>
    /\ UNCHANGED <<isFocused, intervalId, scheduled, pollSnap, frameVars, log, sampleVars, fnVars>>

----------------------------------------------------------------------------
\* Tracking screen: the frame processor

\* Names n for which the backend has a conversion code COLOR_RGB2n.
CvtNames == {"BGR", "GRAY", "HLS", "HSV", "Lab", "XYZ"}

\* useState defaults of the detection parameters.
minObjectSize == 50
maxObjectSize == 500
maxObjectCount == 50

\* Contour areas findContours may report for a frame.
ContourInputs == { <<>>, <<10, 60>>, <<2000, 200>> }

\* area >= (MinSize || 5) && (!MaxSize || area <= MaxSize)
RetainContour(area, MinSize, MaxSize) ==
    /\ area >= (IF MinSize = 0 THEN 5 ELSE MinSize)
    /\ (MaxSize = 0 \/ area <= MaxSize)

\* The bounds handed to inRange for one range of the filter:
\* range.lower ? range.lower : [30, 60, 60], and the same for upper with
\* [50, 157, 157]. A range decoded by stringBoundsToRGB carries both arrays,
\* and an array is truthy.
InRangeBounds(range) ==
    [ lower |-> IF "lower" \in DOMAIN range THEN range.lower ELSE <<30, 60, 60>>,
      upper |-> IF "upper" \in DOMAIN range THEN range.upper ELSE <<50, 157, 157>> ]

\* OpenCV.toJSValue(boundingRect(contour)): a record of x, y, width and
\* height. The regions of the model are strips one pixel high at the origin,
\* so the width of the box is the area of its contour.
boundingRect(area) == [x |-> 0, y |-> 0, width |-> area, height |-> 1]

\* The comparator (a, b) => a.area - b.area. A property the object does not
\* have reads undefined, the difference is NaN, and sort takes NaN as 0.
CompareArea(a, b) ==
    IF "area" \in DOMAIN a /\ "area" \in DOMAIN b THEN a.area - b.area ELSE 0

\* A mutant of ArraySort: the array comes back reversed.
RECURSIVE ArraySort_Reversed(_)
ArraySort_Reversed(arr) ==
    IF arr = <<>> THEN <<>> ELSE Append(ArraySort_Reversed(Tail(arr)), Head(arr))

\* Array.prototype.sort with CompareArea: a stable sort, an element moves
\* before another only when the comparator is negative.
RECURSIVE ArraySort(_)
ArraySort(arr) ==
    IF arr = <<>> THEN <<>>
    ELSE LET rest == ArraySort(SubSeq(arr, 1, Len(arr) - 1))
             last == arr[Len(arr)]
             pos  == CHOOSE k \in 0..Len(rest) :
                        /\ \A i \in 1..k : CompareArea(last, rest[i]) >= 0
                        /\ k < Len(rest) => CompareArea(last, rest[k + 1]) < 0
         IN  SubSeq(rest, 1, pos) \o <<last>> \o SubSeq(rest, pos + 1, Len(rest))

\* rectangles = rectangles.slice(0, maxCount) where rectangles is a const
\* binding: the assignment throws a TypeError and the binding keeps its value.
AssignConst(binding, value) == [threw |-> TRUE, value |-> binding]

\* rectangles.slice(0, maxCount)
ArraySlice(arr, maxCount) ==
    SubSeq(arr, 1, IF Len(arr) < maxCount THEN Len(arr) ELSE maxCount)

\* The rectangles pushed by the contour loop (lines 277-292), in contour order.
RetainedRectangles(areas, MinSize, MaxSize) ==
    LET kept == SelectSeq(areas, LAMBDA a : RetainContour(a, MinSize, MaxSize))
    IN  [i \in 1..Len(kept) |-> boundingRect(kept[i])]

\* Lines 277-320 on the contours of one frame: the rectangles array after the
\* sort of line 300, whether line 302 threw, and the boxes drawn on the frame
\* by the loop of lines 307-320, which runs only if nothing threw before it.
DetectStage(areas, MinSize, MaxSize, maxCount) ==
    LET sorted == ArraySort(RetainedRectangles(areas, MinSize, MaxSize))
        cut    == AssignConst(sorted, ArraySlice(sorted, maxCount))
    IN  [ rectangles |-> sorted,
          raised     |-> cut.threw,
          boxes      |-> IF cut.threw THEN <<>> ELSE cut.value ]

NoFrame ==
    [ ran |-> FALSE, space |-> Null, ranges |-> <<>>, masked |-> FALSE,
      found |-> 0, raised |-> "none", drawn |-> 0, tapHandled |-> FALSE ]

\* The frame processor runs up to cvtColor (line 203), reading colorFormat.
\* An undefined conversion code makes the backend call throw.
FrameConvert ==
    /\ isFocused
    /\ fpPc = "idle"
    /\ LET space == IF FalsyString(colorFormat) THEN "HSV" ELSE colorFormat
       IN  IF space \in CvtNames
           THEN /\ fpPc' = "converted"
                /\ fpSpace' = space
                /\ UNCHANGED frameLog
           ELSE /\ frameLog' = [NoFrame EXCEPT !.ran = TRUE, !.space = space,
                                               !.raised = "cvtColor"]
                /\ UNCHANGED <<fpPc, fpSpace>>
    /\ UNCHANGED <<storeVars, screenVars, log, sampleVars, fnVars>>

\* The frame processor goes on (lines 208-302), reading colorFilter: one
\* inRange per range of the filter, the masks OR-ed; with no range no mask
\* is applied. Contours are filtered by area and their rectangles collected
\* and sorted (DetectStage); then `rectangles = rectangles.slice(0, maxCount)` assigns to
\* a const binding, which throws a TypeError: nothing is drawn and the tap
\* block (lines 322-392) is not reached. Iterating a null filter throws
\* earlier.
FrameMask ==
    /\ fpPc = "converted"
    /\ \E areas \in ContourInputs :
         LET ranges == IF IsNone(colorFilter) THEN <<>>
                       ELSE [i \in 1..Len(The(colorFilter)) |->
                                InRangeBounds(The(colorFilter)[i])]
             rects  == RetainedRectangles(areas, minObjectSize, maxObjectSize)
         IN  frameLog' =
               IF IsNone(colorFilter)
               THEN [NoFrame EXCEPT !.ran = TRUE, !.space = fpSpace, !.raised = "iterate"]
               ELSE [NoFrame EXCEPT !.ran = TRUE, !.space = fpSpace, !.ranges = ranges,
                                    !.masked = (Len(ranges) > 0),
                                    !.found = Len(rects),
                                    !.raised = IF AssignConst(rects, rects).threw
                                               THEN "slice" ELSE "none"]
    /\ fpPc' = "idle"
    /\ fpSpace' = Null
    /\ UNCHANGED <<storeVars, screenVars, log, sampleVars, fnVars>>

----------------------------------------------------------------------------
\* The mask of the frame processor (lines 211-261). An image is a sequence
\* of pixels, a pixel a sequence of channels, a mask a sequence of 0 and 255.

\* OpenCV inRange: 255 where every channel of the pixel lies within
\* [lower, upper], bounds included, 0 elsewhere.
inRange(dst, lower, upper) ==
    [p \in 1..Len(dst) |->
        IF \A c \in 1..Len(dst[p]) : lower[c] <= dst[p][c] /\ dst[p][c] <= upper[c]
        THEN 255 ELSE 0]

\* OpenCV copyTo(src, out, mask) into a Mat that copyTo has to allocate (an
\* empty Mat, or one of another type): allocated as zeros, then src copied
\* where the mask is not 0.
copyTo(src, mask) == [p \in 1..Len(src) |-> IF mask[p] # 0 THEN src[p] ELSE 0]

\* A mutant of bitwise_or: the second operand alone.
bitwise_or_Second(a, b) == b

\* OpenCV bitwise_or
bitwise_or(a, b) == [p \in 1..Len(a) |-> BitOr(a[p], b[p])]

\* The loop over colorFilter.value from range i on: one inRange per range,
\* the first mask copied, each later one OR-ed into a copy of the
\* accumulated mask. Null while no range has been applied.
RECURSIVE AccumulateMask(_, _, _, _)
AccumulateMask(dst, filter, i, accumulatedMask) ==
    IF i > Len(filter) THEN accumulatedMask
    ELSE LET bounds   == InRangeBounds(filter[i])
             tempMask == inRange(dst, bounds.lower, bounds.upper)
         IN  AccumulateMask(dst, filter, i + 1,
                 IF accumulatedMask = <<Null>>
                 THEN copyTo(tempMask, tempMask)
                 ELSE bitwise_or(copyTo(accumulatedMask, accumulatedMask), tempMask))

\* The image handed to findContours: the accumulated mask copied into dst,
\* of which split takes the first channel; with no range dst is still
\* the converted image and its first channel is taken.
MaskStage(dst, filter) ==
    LET accumulatedMask == AccumulateMask(dst, filter, 1, <<Null>>)
    IN  IF accumulatedMask = <<Null>>
        THEN [p \in 1..Len(dst) |-> dst[p][1]]
        ELSE copyTo(accumulatedMask, accumulatedMask)

----------------------------------------------------------------------------
\* The tap block of the frame processor (lines 322-392)

InFrame(x, y, w, h) == x >= 0 /\ x < w /\ y >= 0 /\ y < h

\* A mutant of DiskOffsets: the whole square is sampled.
DiskOffsets_Square(R) == (-R..R) \X (-R..R)

\* The offsets (dx, dy) of the square that lie within the circle.
DiskOffsets(R) ==
    { d \in (-R..R) \X (-R..R) : d[1] * d[1] + d[2] * d[2] <= R * R }


\* The pixels that contribute: the disk around the tap, cut to the frame.
SamplePoints(tap, R, w, h) ==
    { p \in { <<tap.x + d[1], tap.y + d[2]>> : d \in DiskOffsets(R) } :
        InFrame(p[1], p[2], w, h) }

RECURSIVE SumChannel(_, _, _, _)
\* totalR, totalG or totalB: channel ch (0, 1, 2) summed over the points,
\* read from the packed buffer at i = (y * width + x) * 3.
SumChannel(points, buf, w, ch) ==
    IF points = {} THEN 0
    ELSE LET p == CHOOSE q \in points : TRUE
         IN  buf[(p[2] * w + p[1]) * 3 + ch] + SumChannel(points \ {p}, buf, w, ch)

\* Math.round(n / d) for n >= 0, d > 0.
MathRound(n, d) == (2 * n + d) \div (2 * d)

\* What the tap block does with a tap: whether setSelectedColor is called,
\* with which colour, and from how many samples.
TapBlockResult(tapCell, R, buf, w, h) ==
    IF IsNone(tapCell)
    THEN [handled |-> FALSE, called |-> FALSE, color |-> <<0, 0, 0>>, count |-> 0]
    ELSE LET tap    == The(tapCell)
             points == SamplePoints(tap, R, w, h)
             count  == Cardinality(points)
         IN  IF InFrame(tap.x, tap.y, w, h)
             THEN [ handled |-> TRUE, called |-> TRUE, count |-> count,
                    color |-> IF count > 0
                              THEN << MathRound(SumChannel(points, buf, w, 0), count),
                                      MathRound(SumChannel(points, buf, w, 1), count),
                                      MathRound(SumChannel(points, buf, w, 2), count) >>
                              ELSE <<0, 0, 0>> ]
             ELSE [handled |-> TRUE, called |-> FALSE, color |-> <<0, 0, 0>>, count |-> 0]

\* Channel values and colours of the sampled frames.
SampleChannels == {0, 127, 255}
SampleColors == SampleChannels \X SampleChannels \X SampleChannels
OutsideColors == { <<0, 0, 0>>, <<255, 255, 255>>, DefaultColor }

\* Taps in and around the frame.
SampleTaps == { [x |-> x, y |-> y] : x \in -1..FrameWidth, y \in -1..FrameHeight }

\* The full-size RGB buffer of a frame that shows colour `inside` on the
\* disk of radius R around the tap and colour `outside` elsewhere.
DiskFrame(tap, R, inside, outside, w, h) ==
    [ i \in 0..(w * h * 3 - 1) |->
        LET x == (i \div 3) % w
            y == (i \div 3) \div w
        IN  IF (x - tap.x) * (x - tap.x) + (y - tap.y) * (y - tap.y) <= R * R
            THEN inside[(i % 3) + 1]
            ELSE outside[(i % 3) + 1] ]

NoSample == [done |-> FALSE, called |-> FALSE, color |-> <<0, 0, 0>>, count |-> 0]

\* The tap block runs on the pending tap: the colour goes through
\* setSelectedColor and tapPosition.value = null.
ApplyTapBlock ==
    /\ ~sOut.done
    /\ LET buf == DiskFrame(sTap, sRadius, sInside, sOutside, FrameWidth, FrameHeight)
           res == TapBlockResult(tapPosition, sRadius, buf, FrameWidth, FrameHeight)
           set == setSelectedColorResult(Some(res.color))
       IN  /\ sOut' = [done |-> TRUE, called |-> res.called, color |-> res.color,
                       count |-> res.count]
           /\ selectedColor' = IF res.called THEN set.val ELSE selectedColor
           /\ timeLastSent' = IF res.called THEN set.tls ELSE timeLastSent
           /\ tapPosition' = IF res.handled THEN None ELSE tapPosition
    /\ UNCHANGED <<colorFormat, colorFilter, now>>
    /\ UNCHANGED <<screenVars, frameVars, log, sTap, sRadius, sInside, sOutside, fnVars>>

\* The tap block in two steps, as the frame processor thread runs it beside
\* the context of setTapPosition. First `const tap = tapPosition.value`
\* (line 322); a null tap ends the run.
TapBlockRead ==
    /\ fpPc = "idle"
    /\ ~IsNone(tapPosition)
    /\ sTap' = The(tapPosition)
    /\ fpPc' = "tapRead"
    /\ UNCHANGED <<storeVars, screenVars, fpSpace, frameLog, log, sRadius, sInside,
                   sOutside, sOut, fnVars>>

\* Then the sampling of the tap that was read, setSelectedColor, and
\* `tapPosition.value = null` (lines 326-391).
TapBlockFinish ==
    /\ fpPc = "tapRead"
    /\ LET buf == DiskFrame(sTap, sRadius, sInside, sOutside, FrameWidth, FrameHeight)
           res == TapBlockResult(Some(sTap), sRadius, buf, FrameWidth, FrameHeight)
           set == setSelectedColorResult(Some(res.color))
       IN  /\ sOut' = [done |-> TRUE, called |-> res.called, color |-> res.color,
                       count |-> res.count]
           /\ selectedColor' = IF res.called THEN set.val ELSE selectedColor
           /\ timeLastSent' = IF res.called THEN set.tls ELSE timeLastSent
           /\ tapPosition' = None
    /\ fpPc' = "idle"
    /\ UNCHANGED <<colorFormat, colorFilter, now>>
    /\ UNCHANGED <<screenVars, fpSpace, frameLog, log, sTap, sRadius, sInside, sOutside,
                   fnVars>>

----------------------------------------------------------------------------
\* The store driven through its exported functions, every call logged

StoreFormatInputs == {"HSV", "HLS", "RGB", "from"}
StoreTapInputs == { None, Some([x |-> 1, y |-> 1]), Some([x |-> 2, y |-> 2]) }
StoreColorInputs == { Some(DefaultColor), Some(<<0, 0, 0>>) }

\* A logged call: the setter, its argument, Date.now() and what it did.
LogEntry(op, arg, res) == [op |-> op, arg |-> arg, at |-> now, path |-> res.path]

StoreSetTapPosition(value) ==
    /\ Len(log) < MaxCalls
    /\ setTapPosition(value)
    /\ log' = Append(log, LogEntry("setTapPosition", value, setTapPositionResult(value)))
    /\ UNCHANGED <<screenVars, frameVars, sampleVars, fnVars>>

StoreSetSelectedColor(value) ==
    /\ Len(log) < MaxCalls
    /\ setSelectedColor(value)
    /\ log' = Append(log, LogEntry("setSelectedColor", value, setSelectedColorResult(value)))
    /\ UNCHANGED <<screenVars, frameVars, sampleVars, fnVars>>

StoreSetColorFormat(type) ==
    /\ Len(log) < MaxCalls
    /\ setColorFormat(type)
    /\ log' = Append(log, LogEntry("setColorFormat", <<type>>, setColorFormatResult(type)))
    /\ UNCHANGED <<screenVars, frameVars, sampleVars, fnVars>>

StoreReset ==
    /\ resetToDefaults
    /\ UNCHANGED <<screenVars, frameVars, log, sampleVars, fnVars>>

----------------------------------------------------------------------------
\* Specifications

\* The store after tracking.global.js was loaded: resetToDefaults() ran on
\* the placeholder values, nothing called yet.
StoreLoaded ==
    LET cells == ResetCells(Null, None)
    IN  /\ tapPosition = cells.tapPosition
        /\ colorFormat = cells.colorFormat
        /\ selectedColor = cells.selectedColor
        /\ colorFilter = cells.colorFilter
        /\ timeLastSent = [p \in Properties |-> 0]
        /\ now = StartTime

ScreenUnmounted ==
    /\ isFocused = FALSE
    /\ intervalId = None
    /\ scheduled = {}
    /\ selectedColor_JS = None
    /\ pollPc = "idle"
    /\ pollSnap = [left |-> Null, dirty |-> FALSE]
    /\ fpPc = "idle"
    /\ fpSpace = Null
    /\ frameLog = NoFrame

NoSampling ==
    /\ sTap = [x |-> 0, y |-> 0]
    /\ sRadius = 0
    /\ sInside = <<0, 0, 0>>
    /\ sOutside = <<0, 0, 0>>
    /\ sOut = NoSample

NoCall == [op |-> "none"]

NoPureCall ==
    /\ fnCall = NoCall
    /\ fnOut = None

Init == StoreLoaded /\ ScreenUnmounted /\ log = <<>> /\ NoSampling /\ NoPureCall

Next ==
    \/ ClockTick
    \/ FocusGained
    \/ FocusLost
    \/ \E type \in FormatInputs : RequestColorSpace(type)
    \/ \E tap \in TapInputs : RequestTap(tap)
    \/ PollerTick
    \/ PollerReadLeft
    \/ PollerCompare
    \/ PollerColor
    \/ FrameConvert
    \/ FrameMask

\* The tracking screen with its store, poller and frame processor.
Spec == Init /\ [][Next]_vars

NextStore ==
    \/ ClockTick
    \/ StoreReset
    \/ \E value \in StoreTapInputs : StoreSetTapPosition(value)
    \/ \E value \in StoreColorInputs : StoreSetSelectedColor(value)
    \/ \E type \in StoreFormatInputs : StoreSetColorFormat(type)

\* The store alone, called through its exported functions.
SpecStore == Init /\ [][NextStore]_vars

InitSample ==
    /\ sTap \in SampleTaps
    /\ sRadius \in 0..MaxRadius
    /\ sInside \in SampleColors
    /\ sOutside \in OutsideColors
    /\ sOut = NoSample
    /\ LET cells == ResetCells(Null, None)
       IN  /\ tapPosition = Some(sTap)
           /\ colorFormat = cells.colorFormat
           /\ selectedColor = cells.selectedColor
           /\ colorFilter = cells.colorFilter
           /\ timeLastSent = [p \in Properties |-> 0]
           /\ now = StartTime
    /\ ScreenUnmounted
    /\ log = <<>>
    /\ NoPureCall

NextSample == ApplyTapBlock

\* The tap block applied to a pending tap on a frame with a uniform disk.
SpecSample == InitSample /\ [][NextSample]_vars

NextTapRace ==
    \/ ClockTick
    \/ \E value \in StoreTapInputs : StoreSetTapPosition(value)
    \/ TapBlockRead
    \/ TapBlockFinish

\* Taps set through setTapPosition while frames run the tap block.
SpecTapRace == Init /\ [][NextTapRace]_vars

\* Calls of the area filter: every area and pair of limits up to MaxArea.
AreaCalls ==
    [op : {"RetainContour"}, area : 0..MaxArea, MinSize : 0..MaxArea, MaxSize : 0..MaxArea]

\* Channel values of the bounds given to the codec.
BoundChannels == {0, 1, 128, 255}
BoundTriples == BoundChannels \X BoundChannels \X BoundChannels
BoundsCalls == [op : {"bounds"}, lower : BoundTriples, upper : BoundTriples]

\* Every table name and every FORMAT value with every category name.
TableCalls ==
    [op : {"table"}, format : TableNames \cup FORMAT, key : ColorKeys \cup GrayKeys]

\* Contour areas of one frame, in contour order: up to three contours, and
\* one frame with more qualifying contours than maxObjectCount.
DetectAreas == {10, 60, 200, 400, 2000}
DetectContours ==
    UNION { [1..n -> DetectAreas] : n \in 0..3 }
    \cup { [i \in 1..(maxObjectCount + 1) |-> maxObjectSize - i] }
\* The size limits: the defaults of the screen, and a larger maximum.
DetectCalls ==
    [op : {"detect"}, areas : DetectContours, MinSize : {minObjectSize},
     MaxSize : {maxObjectSize, 5000}, maxCount : {maxObjectCount}]

\* Every sample with equal channels, in a space of COLOR mode and in GRAY.
GrayCalls == [op : {"gray"}, level : 0..255, format : {"HSV", "GRAY"}]

\* Samples handed to detectColor: channels in range and out of range,
\* whole and fractional (12.5), NaN and a string; arrays of two, three and
\* four channels; no sample (undefined) and a string in place of the array.
SampleCalls ==
    LET whole    == {JSNumber(0), JSNumber(255)}
        channels == whole \cup { JSNumber(256), JSNumber(-1),
                                 [type |-> "number", twice |-> 25],
                                 [type |-> "NaN", twice |-> 0],
                                 [type |-> "string", twice |-> 24] }
    IN  [ op  : {"sample"},
          rgb : { [kind |-> k, items |-> <<>>] : k \in {"undefined", "string"} }
                \cup { [kind |-> "array", items |-> i] :
                         i \in [1..3 -> channels] \cup [1..2 -> whole] \cup [1..4 -> whole] } ]

\* Converted images of two pixels (hues 5, 90 and 175 with saturation and
\* value in range, hue 5 with a saturation out of range) and filters of one,
\* two and three ranges taken from the HSV table.
MaskCalls ==
    LET pixels  == { <<5, 200, 200>>, <<90, 200, 200>>, <<175, 200, 200>>, <<5, 10, 200>> }
        filters == { DecodeBounds(HSV.RED), DecodeBounds(HSV.GREEN),
                     DecodeBounds(HSV.GREEN) \o DecodeBounds(HSV.RED) }
    IN  [op : {"mask"}, dst : [1..2 -> pixels], filter : filters]

\* Stage results of detectColor for the spaces the poller has a table for:
\* every achromatic colour; every detailed name of the maps, no name (null)
\* and muted names the maps do not list; luminances on both sides of every
\* band of convertToGray.
ClassifyCalls ==
    LET spaces     == {"BGR", "HLS", "HSV", "XYZ", "GRAY"}
        details    == DOMAIN colorMap \cup {Null, "MUTED_PURE_RED", "MUTED_null"}
        luminances == { [lo |-> k, hi |-> k + 1] :
                          k \in {0, 19, 20, 199, 200, 499, 500, 799, 800, 949, 950, 999} }
                      \cup { [lo |-> k, hi |-> k] : k \in {950, 1000} }
        dark       == [lo |-> 0, hi |-> 1]
    IN  [op : {"classify"}, space : spaces, achromaticResult : DOMAIN grayMap,
         detailedColor : {Null}, luminance : {dark}]
        \cup [op : {"classify"}, space : spaces, achromaticResult : {Null},
              detailedColor : details, luminance : {dark}]
        \cup [op : {"classify"}, space : spaces, achromaticResult : {Null},
              detailedColor : {"PURE_RED"}, luminance : luminances]

InitPure ==
    /\ StoreLoaded /\ ScreenUnmounted /\ log = <<>> /\ NoSampling
    /\ fnCall \in AreaCalls \cup BoundsCalls \cup TableCalls \cup DetectCalls
            \cup GrayCalls
            \cup SampleCalls
            \cup MaskCalls
            \cup ClassifyCalls
    /\ fnOut = None

ApplyRetainContour ==
    /\ fnCall.op = "RetainContour" /\ IsNone(fnOut)
    /\ fnOut' = Some(RetainContour(fnCall.area, fnCall.MinSize, fnCall.MaxSize))
    /\ UNCHANGED <<storeVars, screenVars, frameVars, log, sampleVars, fnCall>>

ApplyBoundsCodec ==
    /\ fnCall.op = "bounds" /\ IsNone(fnOut)
    /\ fnOut' = Some(stringBoundsToRGB(rgbBoundsToString(fnCall.lower, fnCall.upper)))
    /\ UNCHANGED <<storeVars, screenVars, frameVars, log, sampleVars, fnCall>>

ApplyTableLookup ==
    /\ fnCall.op = "table" /\ IsNone(fnOut)
    /\ fnOut' = Some(DecodeBounds(TableLookup(fnCall.format, fnCall.key)))
    /\ UNCHANGED <<storeVars, screenVars, frameVars, log, sampleVars, fnCall>>

ApplyDetectStage ==
    /\ fnCall.op = "detect" /\ IsNone(fnOut)
    /\ fnOut' = Some(DetectStage(fnCall.areas, fnCall.MinSize, fnCall.MaxSize,
                                 fnCall.maxCount))
    /\ UNCHANGED <<storeVars, screenVars, frameVars, log, sampleVars, fnCall>>

ApplyDetectGray ==
    /\ fnCall.op = "gray" /\ IsNone(fnOut)
    /\ fnOut' = Some(detectColorGray(fnCall.level, fnCall.format))
    /\ UNCHANGED <<storeVars, screenVars, frameVars, log, sampleVars, fnCall>>

ApplyDetectEntry ==
    /\ fnCall.op = "sample" /\ IsNone(fnOut)
    /\ fnOut' = Some(detectColorOutcome(fnCall.rgb))
    /\ UNCHANGED <<storeVars, screenVars, frameVars, log, sampleVars, fnCall>>

ApplyMaskStage ==
    /\ fnCall.op = "mask" /\ IsNone(fnOut)
    /\ fnOut' = Some(MaskStage(fnCall.dst, fnCall.filter))
    /\ UNCHANGED <<storeVars, screenVars, frameVars, log, sampleVars, fnCall>>

\* The poller's lookup ColorSpace[format][detectColor(color, format).primary].
ApplyClassify ==
    /\ fnCall.op = "classify" /\ IsNone(fnOut)
    /\ LET primary == detectColorPrimary(fnCall.achromaticResult, fnCall.detailedColor,
                                         fnCall.luminance, fnCall.space)
       IN  fnOut' = Some([primary |-> primary,
                          bounds  |-> TableLookup(fnCall.space, primary)])
    /\ UNCHANGED <<storeVars, screenVars, frameVars, log, sampleVars, fnCall>>

NextPure ==
    \/ ApplyRetainContour
    \/ ApplyBoundsCodec
    \/ ApplyTableLookup
    \/ ApplyDetectStage
    \/ ApplyDetectGray
    \/ ApplyDetectEntry
    \/ ApplyMaskStage
    \/ ApplyClassify

\* The pure functions of the pipeline applied to one call each.
SpecPure == InitPure /\ [][NextPure]_vars

----------------------------------------------------------------------------
\* Properties of the store (SpecStore)

\* The logged calls of one setter.
Calls(op) == { i \in 1..Len(log) : log[i].op = op }

\* Calls i and j of the same setter with no call of that setter in between.
Successive(i, j) ==
    /\ i < j
    /\ log[i].op = log[j].op
    /\ \A m \in (i + 1)..(j - 1) : log[m].op # log[i].op

\* C1: when a setColorFormat call was applied and the next setColorFormat
\* call carries a different valid colour space less than 50 ms later, that
\* second call is dropped by the throttle; and the setColorFormat call after
\* it, carrying a valid colour space other than the current one 50 ms or
\* more after the first, is applied. colorFormat holds the value of the last
\* applied call.
C1_SecondDroppedThirdApplied ==
    /\ \A i, j \in Calls("setColorFormat") :
         ( /\ Successive(i, j)
           /\ log[i].path = "applied"
           /\ log[j].arg[1] \in FORMAT
           /\ log[j].arg # log[i].arg
           /\ log[j].at - log[i].at < 50 )
         => /\ log[j].path = "throttled"
            /\ \A k \in Calls("setColorFormat") :
                 ( /\ Successive(j, k)
                   /\ log[k].arg[1] \in FORMAT
                   /\ log[k].arg # log[i].arg
                   /\ log[k].at - log[i].at >= 50 )
                 => log[k].path = "applied"
    /\ \A i \in Calls("setColorFormat") :
         ( /\ log[i].path = "applied"
           /\ \A m \in Calls("setColorFormat") : m > i => log[m].path # "applied" )
         => colorFormat = log[i].arg[1]

\* C1 witness: three successive setColorFormat calls, the first applied, the
\* second with another valid space within 50 ms dropped, the third after the
\* interval applied and visible in colorFormat.
C1_Witness ==
    \E i, j, k \in Calls("setColorFormat") :
        /\ Successive(i, j) /\ Successive(j, k)
        /\ log[i].path = "applied" /\ log[i].arg[1] \in FORMAT
        /\ log[j].arg[1] \in FORMAT /\ log[j].arg # log[i].arg
        /\ log[j].at - log[i].at < 50 /\ log[j].path = "throttled"
        /\ log[k].arg[1] \in FORMAT /\ log[k].arg # log[i].arg
        /\ log[k].at - log[i].at >= 50 /\ log[k].path = "applied"
        /\ k = Len(log) /\ colorFormat = log[k].arg[1]

\* C2: two applied updates of the same field through its setter are at
\* least 50 ms apart; and every call dropped by the throttle follows, by
\* less than 50 ms, a call on the same field that passed the throttle: a
\* call is never dropped on account of another field.
C2_ThrottlePerField ==
    /\ \A i, j \in 1..Len(log) :
         ( /\ i < j /\ log[i].op = log[j].op
           /\ log[i].path = "applied" /\ log[j].path = "applied" )
         => log[j].at - log[i].at >= 50
    /\ \A j \in 1..Len(log) :
         log[j].path = "throttled"
         => \E i \in 1..(j - 1) :
              /\ log[i].op = log[j].op
              /\ log[i].path \in {"applied", "invalid"}
              /\ log[j].at - log[i].at < 50

\* C2 witness: a field updated twice, 50 ms apart, and in between an update
\* of a different field applied less than 50 ms after the first.
C2_Witness ==
    \E i, j, k \in 1..Len(log) :
        /\ i < j /\ j < k
        /\ log[i].op = log[k].op /\ log[j].op # log[i].op
        /\ log[i].path = "applied" /\ log[j].path = "applied" /\ log[k].path = "applied"
        /\ log[j].at - log[i].at < 50
        /\ log[k].at - log[i].at >= 50

\* The stored value a setter call is compared with.
StoredValue(op) ==
    CASE op = "setTapPosition"   -> tapPosition
      [] op = "setSelectedColor" -> selectedColor
      [] op = "setColorFormat"   -> <<colorFormat>>

\* C3: a setter call whose value equals the field's current value (samples
\* and taps component-wise) changes nothing in the store: no field and no
\* throttle timestamp.
C3_UnchangedValueIsNoOp ==
    [][ ( /\ Len(log') = Len(log) + 1
          /\ log'[Len(log')].arg = StoredValue(log'[Len(log')].op) )
        => UNCHANGED storeVars ]_vars

\* The call passed the throttle check and started a window.
PassedThrottle(i) == log[i].path \in {"applied", "invalid"}

\* C26: the throttle window of a field runs from the last call on that field
\* that passed the throttle; calls dropped in between do not restart it. A
\* call with a new value made 50 ms or more after the last call that passed,
\* whatever calls were dropped in between, passes the throttle.
C26_WindowFromLastPassedCall ==
    \A i, k \in 1..Len(log) :
      ( /\ i < k /\ log[i].op = log[k].op
        /\ PassedThrottle(i)
        /\ \A m \in (i + 1)..(k - 1) :
             log[m].op = log[i].op => log[m].path \in {"throttled", "same"}
        /\ log[k].path # "same"
        /\ log[k].at - log[i].at >= THROTTLED )
      => PassedThrottle(k)

\* C26 witness: on a field other than colorFormat a call was applied, the
\* next one on that field was dropped less than 50 ms later, and the one
\* after that was applied 50 ms after the first.
C26_Witness ==
    \E i, j, k \in 1..Len(log) :
        /\ i < j /\ j < k
        /\ log[i].op # "setColorFormat"
        /\ log[j].op = log[i].op /\ log[k].op = log[i].op
        /\ log[i].path = "applied" /\ log[j].path = "throttled" /\ log[k].path = "applied"
        /\ log[j].at - log[i].at < THROTTLED
        /\ log[k].at - log[i].at >= THROTTLED
        /\ log[k].at - log[j].at < THROTTLED

\* C24: a setColorFormat call with an unsupported value (a string that is
\* neither a colour space nor any other member of FORMAT) changes nothing in
\* the store: not colorFormat, not colorFilter and not the throttle
\* timestamp of colorFormat.
C24_UnsupportedFormatIsNoOp ==
    [][ ( /\ Len(log') = Len(log) + 1
          /\ log'[Len(log')].op = "setColorFormat"
          /\ log'[Len(log')].arg[1] \notin FORMAT \cup FORMAT_OtherMembers )
        => UNCHANGED storeVars ]_vars

----------------------------------------------------------------------------
\* Properties of the tracking screen (Spec)

\* C4: colorSpace is always one of the six values BGR, GRAY, HLS, HSV, Lab,
\* XYZ; any other string passed to setColorFormat is rejected.
C4_ColorSpaceIsOneOfSix == colorFormat \in FORMAT

\* C5: after resetToDefaults() (run on every focus gain) colorSpace is HSV,
\* targetColor is the default sample (224,138,9), thresholds are the
\* derivation for (HSV, default sample) and pendingTap is null.
C5_ResetRestoresDefaults ==
    [][ (~isFocused /\ isFocused')
        => /\ colorFormat' = "HSV"
           /\ selectedColor' = Some(DefaultColor)
           /\ colorFilter' = Some(ColorClosestToRGB(DefaultColor, "HSV"))
           /\ tapPosition' = None ]_vars

\* A frame processor run ends with this step.
FrameRunEnds == fpPc = "converted" /\ fpPc' = "idle"

\* C6: a frame processor run that finds pendingTap holding an in-frame
\* coordinate handles the tap (writes the sampled colour through
\* setSelectedColor) and leaves pendingTap null.
C6_FrameConsumesTap ==
    [][ ( /\ FrameRunEnds
          /\ ~IsNone(tapPosition)
          /\ InFrame(The(tapPosition).x, The(tapPosition).y, FrameWidth, FrameHeight) )
        => (frameLog'.tapHandled /\ tapPosition' = None) ]_vars

\* The table the specification gives the colour space: Lab has one.
SpecTable(format) == IF format = "Lab" THEN LAB ELSE Table(format)

\* thresholds are the table entry of the current colour space for some
\* category (the classifier's category of the target colour among them).
ThresholdsFromTable ==
    /\ ~IsNone(colorFilter)
    /\ \E k \in DOMAIN SpecTable(colorFormat) :
         The(colorFilter) = DecodeBounds(SpecTable(colorFormat)[k])

\* C8: at the end of a poller tick during which the selection did not
\* change, thresholds are the table entry for the current colorSpace and
\* the category of the current targetColor.
C8_PollerSyncsThresholds ==
    [][ ( /\ pollPc # "idle" /\ pollPc' = "idle"
          /\ ~pollSnap.dirty
          /\ colorFormat \in FORMAT )
        => ThresholdsFromTable' ]_vars

\* C10: a frame processed while thresholds is empty or null builds its mask
\* from the hardcoded fallback range and completes without raising.
C10_EmptyThresholdsUseFallback ==
    [][ ( /\ FrameRunEnds
          /\ (IsNone(colorFilter) \/ The(colorFilter) = <<>>) )
        => /\ frameLog'.ranges = << [lower |-> <<30, 60, 60>>, upper |-> <<50, 157, 157>>] >>
           /\ frameLog'.masked
           /\ frameLog'.raised = "none" ]_vars

----------------------------------------------------------------------------
\* Properties of the tap block (SpecSample)

\* C7: for a tap inside the frame on a disk of uniform colour c, whatever
\* surrounds the disk and however close the tap is to the frame edge, the
\* sample computed is exactly c.
C7_UniformDiskSampledExactly ==
    (sOut.done /\ sOut.called) => sOut.color = sInside

\* C7 witness: a tap on the frame edge with a radius that reaches outside
\* the frame, on a disk whose colour differs from its surroundings.
C7_Witness ==
    /\ sOut.done /\ sOut.called
    /\ sTap.x = 0 /\ sRadius >= 1
    /\ sOut.count < Cardinality(DiskOffsets(sRadius))
    /\ sOut.count > 1
    /\ sInside # sOutside /\ sInside # <<0, 0, 0>>
    /\ sOut.color = sInside

\* C9: when the tap block has consumed a tap whose sampling disk has no
\* pixel inside the frame, targetColor is pure black and pendingTap is null.
C9_EmptySampleIsBlack ==
    ( /\ sOut.done
      /\ SamplePoints(sTap, sRadius, FrameWidth, FrameHeight) = {} )
    => (selectedColor = Some(<<0, 0, 0>>) /\ tapPosition = None)

----------------------------------------------------------------------------
\* Properties of the detection stage and the pure functions (SpecPure)

\* The call of the given function has been applied.
Applied(op) == fnCall.op = op /\ ~IsNone(fnOut)

\* Area of a drawn box.
BoxArea(box) == box.width * box.height

\* The contours of the call whose area lies within the size limits.
Qualifying ==
    { i \in 1..Len(fnCall.areas) :
        fnCall.areas[i] >= fnCall.MinSize /\ fnCall.areas[i] <= fnCall.MaxSize }

\* The sequence is ordered ascending by area.
AscendingByArea(boxes) ==
    \A i, j \in 1..Len(boxes) : i < j => BoxArea(boxes[i]) <= BoxArea(boxes[j])

\* C11: the boxes of a frame are ordered ascending by region area, and a
\* frame whose qualifying regions are no more than maxObjectCount returns a
\* box for each of them (two regions of areas 200 and 2000: both, the 200
\* one first).
C11_ResultAscendingByArea ==
    Applied("detect")
    => /\ AscendingByArea(The(fnOut).boxes)
       /\ Cardinality(Qualifying) <= fnCall.maxCount
          => Len(The(fnOut).boxes) = Cardinality(Qualifying)

\* C12: the result holds at most maxObjectCount boxes, and when more regions
\* qualify it holds the first maxObjectCount of the area-sorted sequence:
\* maxObjectCount boxes in ascending order, none larger than a region left
\* out.
C12_ResultTruncatedToMaxCount ==
    Applied("detect")
    => /\ Len(The(fnOut).boxes) <= fnCall.maxCount
       /\ Cardinality(Qualifying) > fnCall.maxCount
          => LET boxes == The(fnOut).boxes
                 kept  == { BoxArea(boxes[i]) : i \in 1..Len(boxes) }
             IN  /\ Len(boxes) = fnCall.maxCount
                 /\ AscendingByArea(boxes)
                 /\ kept \subseteq { fnCall.areas[i] : i \in Qualifying }
                 /\ \A i \in Qualifying :
                      fnCall.areas[i] \notin kept
                      => \A a \in kept : a <= fnCall.areas[i]

\* C13: a contour is retained if and only if its area lies in
\* [minSize, maxSize], for every pair of limits, 0 included.
C13_RetainedIffWithinLimits ==
    Applied("RetainContour")
    => (The(fnOut) <=> (fnCall.area >= fnCall.MinSize /\ fnCall.area <= fnCall.MaxSize))

\* C19: decoding the text of a pair of bounds gives back exactly the lower
\* and the upper triple that were encoded.
C19_BoundsRoundTrip ==
    Applied("bounds")
    => The(fnOut) = [lower |-> fnCall.lower, upper |-> fnCall.upper]

\* C19 witness: a round trip of two different triples that hold the extreme
\* channel values.
C19_Witness ==
    /\ Applied("bounds")
    /\ fnCall.lower = <<0, 1, 128>> /\ fnCall.upper = <<255, 128, 0>>
    /\ The(fnOut).lower = <<0, 1, 128>> /\ The(fnOut).upper = <<255, 128, 0>>

\* Two ranges share no hue.
HueDisjoint(r1, r2) == r1.upper[1] < r2.lower[1] \/ r2.upper[1] < r1.lower[1]

\* C20: the RED entry of the HSV and of the HLS table is two disjoint ranges
\* with hues [0,10] and [170,179]; every other entry of every table is a
\* single range.
C20_RedIsTwoRangesOthersOne ==
    (Applied("table") /\ TableLookup(fnCall.format, fnCall.key) # <<>>)
    => LET set == The(fnOut)
       IN  IF fnCall.format \in {"HSV", "HLS"} /\ fnCall.key = "RED"
           THEN /\ Len(set) = 2
                /\ HueDisjoint(set[1], set[2])
                /\ { <<set[i].lower[1], set[i].upper[1]>> : i \in 1..2 }
                     = { <<0, 10>>, <<170, 179>> }
           ELSE Len(set) = 1

\* C20 witness: the RED entry of HSV has been looked up and holds two ranges.
C20_Witness ==
    /\ Applied("table")
    /\ fnCall.format = "HSV" /\ fnCall.key = "RED"
    /\ Len(The(fnOut)) = 2
    /\ The(fnOut)[2].lower[1] = 170

\* The seven chromatic categories.
ChromaticKeys == {"RED", "ORANGE", "YELLOW", "GREEN", "CYAN", "BLUE", "PURPLE"}

\* The decoded ranges of a chromatic category in a table.
RangesOf(format, key) == DecodeBounds(TableLookup(format, key))

\* The hue lies in the hue interval of the range.
HueWithin(hue, range) == range.lower[1] <= hue /\ hue <= range.upper[1]

\* C30: in every range of every table each lower component is at most the
\* matching upper component; in the HSV and the HLS table the hue intervals
\* of the seven chromatic categories (RED with its two ranges) are pairwise
\* disjoint, and every hue 0..179 lies in one of them.
C30_HueIntervalsPartition ==
    Applied("table")
    => LET set == The(fnOut)
       IN  /\ \A i \in 1..Len(set) : \A c \in 1..3 : set[i].lower[c] <= set[i].upper[c]
           /\ (fnCall.format \in {"HSV", "HLS"} /\ fnCall.key \in ChromaticKeys)
              => /\ \A i, j \in 1..Len(set) : i # j => HueDisjoint(set[i], set[j])
                 /\ \A k \in ChromaticKeys \ {fnCall.key} :
                      \A i \in 1..Len(set) :
                        \A j \in 1..Len(RangesOf(fnCall.format, k)) :
                          HueDisjoint(set[i], RangesOf(fnCall.format, k)[j])
                 /\ \A hue \in 0..179 :
                      \E k \in ChromaticKeys :
                        \E j \in 1..Len(RangesOf(fnCall.format, k)) :
                          HueWithin(hue, RangesOf(fnCall.format, k)[j])

\* C30 witness: the ORANGE entry of the HLS table has been looked up; its
\* hues 11..25 end where those of YELLOW begin.
C30_Witness ==
    /\ Applied("table")
    /\ fnCall.format = "HLS" /\ fnCall.key = "ORANGE"
    /\ The(fnOut)[1].lower[1] = 11 /\ The(fnOut)[1].upper[1] = 25
    /\ RangesOf("HLS", "YELLOW")[1].lower[1] = 26

\* C21: for each of the six FORMAT values and each of the ten categories the
\* lookup of the bounds yields at least one range.
C21_TableTotal ==
    (Applied("table") /\ fnCall.format \in FORMAT /\ fnCall.key \in ColorKeys)
    => Len(The(fnOut)) >= 1

\* The luminance band table of the specification.
BandCategory(luminance) ==
    IF LuminanceLt(luminance, 20) THEN "BLACK"
    ELSE IF LuminanceLt(luminance, 150) THEN "VERY_DARK_GRAY"
    ELSE IF LuminanceLt(luminance, 300) THEN "DARK_GRAY"
    ELSE IF LuminanceLt(luminance, 500) THEN "MEDIUM_DARK_GRAY"
    ELSE IF LuminanceLt(luminance, 650) THEN "MEDIUM_GRAY"
    ELSE IF LuminanceLt(luminance, 800) THEN "LIGHT_GRAY"
    ELSE IF LuminanceLt(luminance, 950) THEN "VERY_LIGHT_GRAY"
    ELSE "WHITE"

\* The gray levels whose brightness is above 245 and whose luminance is
\* below 0.95.
BrightLevels == 246..249

\* C22 as stated: for every sample with r = g = b the detailed category is
\* the one the luminance band table gives, for all 256 gray levels.
C22_GrayByLuminanceBandsAlone ==
    Applied("gray")
    => The(fnOut).detailedColor
         = BandCategory(calculateRelativeLuminance(fnCall.level, fnCall.level, fnCall.level))

\* C22 amended: for every sample with r = g = b the detailed category is the
\* one the luminance band table gives, except for the gray levels 246..249,
\* which classify as WHITE through their brightness although their luminance
\* is below 0.95.
C22_GrayByBandsExceptBrightLevels ==
    Applied("gray")
    => The(fnOut).detailedColor
         = IF fnCall.level \in BrightLevels THEN "WHITE"
           ELSE BandCategory(calculateRelativeLuminance(fnCall.level, fnCall.level,
                                                        fnCall.level))

\* C22 witness: gray level 246 has been classified WHITE with a luminance
\* in the VERY_LIGHT_GRAY band.
C22_Witness ==
    /\ Applied("gray")
    /\ fnCall.level = 246
    /\ The(fnOut).detailedColor = "WHITE"
    /\ LuminanceLt(The(fnOut).luminance, 950)
    /\ ~LuminanceLt(The(fnOut).luminance, 800)

\* The sample is an array of exactly three numbers within [0, 255].
ThreeChannelsInRange(rgb) ==
    /\ rgb.kind = "array" /\ Len(rgb.items) = 3
    /\ \A i \in 1..3 : /\ rgb.items[i].type = "number"
                        /\ rgb.items[i].twice \in 0..510

\* The sample is an array of exactly three integers within [0, 255].
ThreeIntegersInRange(rgb) ==
    /\ ThreeChannelsInRange(rgb)
    /\ \A i \in 1..3 : rgb.items[i].twice % 2 = 0

\* C23 as stated: detectColor signals an error and produces no classification
\* for every sample that is not exactly three integers in [0, 255].
C23_NonIntegerSampleSignalsError ==
    (Applied("sample") /\ ~ThreeIntegersInRange(fnCall.rgb))
    => The(fnOut) # "classified"

\* C23 amended: detectColor signals an error and produces no classification
\* exactly for the samples that are not three numbers in [0, 255] (a channel
\* out of range, NaN or not a number, a wrong arity, no sample); a fractional
\* channel in range is accepted. The call changes no tracking state.
C23_OutOfContractSampleSignalsError ==
    /\ Applied("sample")
         => (The(fnOut) \in {"Error", "TypeError"} <=> ~ThreeChannelsInRange(fnCall.rgb))
    /\ Applied("sample")
         => (The(fnOut) = "classified" <=> ThreeChannelsInRange(fnCall.rgb))
    /\ Applied("sample") => (StoreLoaded /\ ScreenUnmounted)

\* C23 witness: a sample with a channel of 256 has been rejected.
C23_Witness ==
    /\ Applied("sample")
    /\ fnCall.rgb.kind = "array" /\ Len(fnCall.rgb.items) = 3
    /\ fnCall.rgb.items[1] = JSNumber(256)
    /\ The(fnOut) = "Error"

\* The pixel lies within the box of the range, bounds included.
WithinRange(pixel, range) ==
    \A c \in 1..3 : range.lower[c] <= pixel[c] /\ pixel[c] <= range.upper[c]

\* C25: for a filter of one or more ranges, a pixel is set in the mask the
\* contours are taken from if and only if it lies within at least one of the
\* ranges.
C25_MaskIsUnionOfRanges ==
    (Applied("mask") /\ Len(fnCall.filter) >= 1)
    => \A p \in 1..Len(fnCall.dst) :
         The(fnOut)[p] # 0
           <=> \E i \in 1..Len(fnCall.filter) : WithinRange(fnCall.dst[p], fnCall.filter[i])

\* C25 witness: with the two ranges of HSV RED a pixel of hue 5 and a pixel
\* of hue 175 are both set.
C25_Witness ==
    /\ Applied("mask")
    /\ fnCall.filter = DecodeBounds(HSV.RED)
    /\ fnCall.dst = << <<5, 200, 200>>, <<175, 200, 200>> >>
    /\ The(fnOut) = <<255, 255>>

\* C29: for each of the spaces BGR, HLS, HSV, XYZ and GRAY the category the
\* classifier returns in the mode of that space is a key of the space's
\* table, and the entry looked up under it holds at least one range.
C29_PrimaryIsKeyOfTable ==
    Applied("classify")
    => /\ The(fnOut).primary \in DOMAIN Table(fnCall.space)
       /\ Len(The(fnOut).bounds) >= 1

\* C29 witness: in HSV the detailed colour BROWN of a chromatic sample has
\* been simplified to ORANGE and the ORANGE entry of the HSV table found.
C29_Witness ==
    /\ Applied("classify")
    /\ fnCall.space = "HSV" /\ fnCall.achromaticResult = Null
    /\ fnCall.detailedColor = "BROWN"
    /\ The(fnOut).primary = "ORANGE"
    /\ The(fnOut).bounds = HSV.ORANGE

----------------------------------------------------------------------------
\* Properties of the screen life cycle (Spec)

\* The ranges are the entry of some category in the table of the space.
DerivedFor(space, ranges) ==
    \E k \in DOMAIN Table(space) : ranges = DecodeBounds(Table(space)[k])

\* C28: a frame that converted the image to a colour space with a table and
\* built a mask did so with ranges derived for that colour space.
C28_FrameSpaceMatchesThresholds ==
    (frameLog.ran /\ frameLog.masked /\ frameLog.space \in TableNames)
    => DerivedFor(frameLog.space, frameLog.ranges)

\* C27: when a frame clears tapPosition, the tap it discards is the tap this
\* frame read: no tap accepted by setTapPosition in the meantime is lost.
C27_FrameClearsOnlyTheTapItRead ==
    [][ (fpPc = "tapRead" /\ fpPc' = "idle" /\ ~IsNone(tapPosition))
        => tapPosition = Some(sTap) ]_vars

\* C14: a frame processor run never raises, whatever the frame and the
\* state of the store (stated here for the runs whose colour space has a
\* conversion code).
C14_FrameNeverRaises ==
    (frameLog.ran /\ frameLog.space \in CvtNames) => frameLog.raised = "none"

\* A poller tick fires; a frame processor run starts.
PollerFires == pollPc = "idle" /\ pollPc' # "idle"
FrameStarts == fpPc = "idle" /\ (fpPc' # "idle" \/ frameLog' # frameLog)

C16_FocusLossClearsTap ==
    [][ (isFocused /\ ~isFocused')
        => /\ tapPosition' = None
           /\ colorFormat' = colorFormat
           /\ selectedColor' = selectedColor ]_vars

C18_RederivationAllOrNothing ==
    [][ ( /\ (~isFocused /\ isFocused') \/ (pollPc # "idle" /\ pollPc' # pollPc)
          /\ colorFormat' \in FORMAT )
        => (ThresholdsFromTable' \/ colorFilter' = colorFilter) ]_vars

====
